---- MODULE Spec2Model ----
(***************************************************************************)
(* Model of the feedback analysis pipeline:                                *)
(*   categorymaker.py    FeedbackAnalyzer  (clean_text, process_row,       *)
(*                       extract_elements, analyze_feedback)               *)
(*   thematic-batches.py ThematicAnalyzer  (collect_categories,            *)
(*                       get_analysis_from_claude, iterative_aggregation)  *)
(*                                                                         *)
(* A Python str is a sequence of one-character strings.  NaN stands for a  *)
(* value that is not a str (an absent cell, pandas NaN).                   *)
(***************************************************************************)
EXTENDS Integers, Sequences, FiniteSets, TLC

VARIABLES
    \* FeedbackAnalyzer.analyze_feedback and process_row
    rows, df, row_idx, attempt, row_pc, row_log, analyses, extracted,
    \* clean_text applied twice
    text, cleaned, clean_pc,
    \* ThematicAnalyzer: the input column and the configuration
    column, max_batch_size, batch_by,
    \* ThematicAnalyzer.iterative_aggregation
    pc, categories, new_categories, i, iteration, final_analysis,
    \* the service calls made and the replies to them, the iteration files and
    \* the final file written
    calls, replies, saved, final_file

cleanVars == <<text, cleaned, clean_pc>>
configVars == <<column, max_batch_size, batch_by>>
aggVars == <<pc, categories, new_categories, i, iteration, final_analysis,
             calls, replies, saved, final_file>>
rowVars == <<rows, df, row_idx, attempt, row_pc, row_log, analyses, extracted>>
vars == <<cleanVars, configVars, aggVars, rowVars>>

(***************************************************************************)
(* Bounds of the model                                                     *)
(***************************************************************************)
MaxChunks == 5
MaxRows == 4
MaxBatchSize == 3
MaxAggRows == 4
MaxFeedbackRows == 2
MaxExtractChunks == 5

(***************************************************************************)
(* The parts of the state a specification does not use stay as they are    *)
(***************************************************************************)
NoFile == <<"<no file>">>

CleanIdle ==
    /\ text = <<>>
    /\ cleaned = <<>>
    /\ clean_pc = "idle"

AggIdle ==
    /\ pc = "idle"
    /\ categories = <<>>
    /\ new_categories = <<>>
    /\ i = 0
    /\ iteration = 0
    /\ final_analysis = <<>>
    /\ calls = <<>>
    /\ replies = <<>>
    /\ saved = <<>>
    /\ final_file = NoFile

ConfigIdle ==
    /\ column = <<>>
    /\ max_batch_size = 1
    /\ batch_by = "rows"

RowIdle ==
    /\ rows = <<>>
    /\ df = <<>>
    /\ row_idx = 0
    /\ attempt = 0
    /\ row_pc = "idle"
    /\ row_log = <<>>
    /\ analyses = <<>>
    /\ extracted = <<>>

(***************************************************************************)
(* Strings                                                                 *)
(***************************************************************************)
NaN == <<"NaN">>

isinstance_str(x) == x # NaN

IsSpace(c) == c \in {" ", "\n", "\t"}

StartsWithAt(s, p, lit) ==
    /\ p >= 1
    /\ p + Len(lit) - 1 <= Len(s)
    /\ SubSeq(s, p, p + Len(lit) - 1) = lit

RECURSIVE lstrip(_)
lstrip(s) ==
    IF s = <<>> THEN <<>>
    ELSE IF IsSpace(Head(s)) THEN lstrip(Tail(s))
    ELSE s

RECURSIVE rstrip(_)
rstrip(s) ==
    IF s = <<>> THEN <<>>
    ELSE IF IsSpace(s[Len(s)]) THEN rstrip(SubSeq(s, 1, Len(s) - 1))
    ELSE s

\* str.strip()
strip(s) == rstrip(lstrip(s))

\* str.replace(old, new): left to right, non-overlapping
RECURSIVE replace(_, _, _)
replace(s, old, new) ==
    IF s = <<>> THEN <<>>
    ELSE IF StartsWithAt(s, 1, old)
         THEN new \o replace(SubSeq(s, Len(old) + 1, Len(s)), old, new)
    ELSE <<Head(s)>> \o replace(Tail(s), old, new)

RECURSIVE Flatten(_)
Flatten(ss) ==
    IF ss = <<>> THEN <<>> ELSE Head(ss) \o Flatten(Tail(ss))

(***************************************************************************)
(* FeedbackAnalyzer.clean_text                                             *)
(***************************************************************************)
ContentBlockOpen ==
    <<"C", "o", "n", "t", "e", "n", "t", "B", "l", "o", "c", "k", "(",
      "t", "e", "x", "t", "=", "'">>

TypeText == <<",", " ", "t", "y", "p", "e", "=", "'", "t", "e", "x", "t", "'">>

CharAt(s, p) == IF p >= 1 /\ p <= Len(s) THEN s[p] ELSE ""

\* length of the match of  ')'  then an optional  ']'  at position p, 0 if none
CloseLen(s, p) ==
    IF CharAt(s, p) # ")" THEN 0
    ELSE IF CharAt(s, p + 1) = "]" THEN 2 ELSE 1

\* length of the match of
\*   \[?ContentBlock\(text=\'|\'(?:, type=\'text\')?\)\]?
\* that starts at position p of s, 0 if there is none
ContentBlockMatch(s, p) ==
    IF CharAt(s, p) = "[" /\ StartsWithAt(s, p + 1, ContentBlockOpen)
    THEN 1 + Len(ContentBlockOpen)
    ELSE IF StartsWithAt(s, p, ContentBlockOpen)
    THEN Len(ContentBlockOpen)
    ELSE IF CharAt(s, p) = "'"
    THEN IF StartsWithAt(s, p + 1, TypeText)
            /\ CloseLen(s, p + 1 + Len(TypeText)) > 0
         THEN 1 + Len(TypeText) + CloseLen(s, p + 1 + Len(TypeText))
         ELSE IF CloseLen(s, p + 1) > 0
         THEN 1 + CloseLen(s, p + 1)
         ELSE 0
    ELSE 0

\* re.sub(<the pattern above>, '', text)
RECURSIVE remove_content_block(_)
remove_content_block(s) ==
    IF s = <<>> THEN <<>>
    ELSE IF ContentBlockMatch(s, 1) > 0
         THEN remove_content_block(SubSeq(s, ContentBlockMatch(s, 1) + 1, Len(s)))
    ELSE <<Head(s)>> \o remove_content_block(Tail(s))

\* re.sub(r'\s+', ' ', text)
RECURSIVE collapse_spaces(_)
collapse_spaces(s) ==
    IF s = <<>> THEN <<>>
    ELSE IF IsSpace(Head(s))
         THEN <<" ">> \o collapse_spaces(lstrip(s))
    ELSE <<Head(s)>> \o collapse_spaces(Tail(s))

remove_quotes(s) == replace(replace(s, <<"\"">>, <<>>), <<"'">>, <<>>)

clean_text(t) ==
    IF ~isinstance_str(t) THEN <<>>
    ELSE LET t1 == remove_content_block(t)
             t2 == replace(t1, <<"\\", "n">>, <<"\n">>)
             t3 == replace(t2, <<"\\">>, <<>>)
             t4 == collapse_spaces(t3)
             t5 == remove_quotes(t4)
         IN  strip(t5)

(***************************************************************************)
(* More of str and list                                                    *)
(***************************************************************************)
\* str.split(sep) for a non-empty sep
RECURSIVE split(_, _)
split(s, sep) ==
    LET hits == { k \in 1..Len(s) : StartsWithAt(s, k, sep) }
    IN  IF hits = {} THEN <<s>>
        ELSE LET k == CHOOSE h \in hits : \A g \in hits : h <= g
             IN  <<SubSeq(s, 1, k - 1)>>
                    \o split(SubSeq(s, k + Len(sep), Len(s)), sep)

\* sep.join(parts)
RECURSIVE join(_, _)
join(sep, parts) ==
    IF parts = <<>> THEN <<>>
    ELSE IF Len(parts) = 1 THEN parts[1]
    ELSE parts[1] \o sep \o join(sep, Tail(parts))

notna(v) == v # NaN

(***************************************************************************)
(* ThematicAnalyzer.collect_categories                                     *)
(***************************************************************************)
\* [cat.strip() for cat in entry.split(';') if cat.strip()]
parse_categories(entry) ==
    LET toks == split(entry, <<";">>)
        kept == SelectSeq(toks, LAMBDA c : strip(c) # <<>>)
    IN  [k \in 1..Len(kept) |-> strip(kept[k])]

\* rows_loop closing a batch one row late (current_count > size)
RECURSIVE rows_loop_late(_, _, _, _, _, _)
rows_loop_late(col, size, r, batches, current_batch, current_count) ==
    IF r > Len(col)
    THEN [batches |-> batches, current_batch |-> current_batch]
    ELSE IF ~notna(col[r])
    THEN rows_loop_late(col, size, r + 1, batches, current_batch, current_count)
    ELSE IF current_count > size
    THEN rows_loop_late(col, size, r + 1, Append(batches, current_batch),
                        parse_categories(col[r]), 1)
    ELSE rows_loop_late(col, size, r + 1, batches,
                        current_batch \o parse_categories(col[r]), current_count + 1)

\* the loop of the 'rows' policy from row r on (r counts from 1)
RECURSIVE rows_loop(_, _, _, _, _, _)
rows_loop(col, size, r, batches, current_batch, current_count) ==
    IF r > Len(col)
    THEN [batches |-> batches, current_batch |-> current_batch]
    ELSE IF ~notna(col[r])
    THEN rows_loop(col, size, r + 1, batches, current_batch, current_count)
    ELSE IF current_count >= size
    THEN rows_loop(col, size, r + 1, Append(batches, current_batch),
                   parse_categories(col[r]), 1)
    ELSE rows_loop(col, size, r + 1, batches,
                   current_batch \o parse_categories(col[r]), current_count + 1)

\* categories_loop testing the count before the row is added (current_count > size)
RECURSIVE categories_loop_late(_, _, _, _, _, _)
categories_loop_late(col, size, r, batches, current_batch, current_count) ==
    IF r > Len(col)
    THEN [batches |-> batches, current_batch |-> current_batch]
    ELSE IF ~notna(col[r])
    THEN categories_loop_late(col, size, r + 1, batches, current_batch, current_count)
    ELSE IF current_count > size
    THEN categories_loop_late(col, size, r + 1, Append(batches, current_batch),
                              parse_categories(col[r]), Len(parse_categories(col[r])))
    ELSE categories_loop_late(col, size, r + 1, batches,
                              current_batch \o parse_categories(col[r]),
                              current_count + Len(parse_categories(col[r])))

\* the loop of the 'categories' policy from row r on
RECURSIVE categories_loop(_, _, _, _, _, _)
categories_loop(col, size, r, batches, current_batch, current_count) ==
    IF r > Len(col)
    THEN [batches |-> batches, current_batch |-> current_batch]
    ELSE IF ~notna(col[r])
    THEN categories_loop(col, size, r + 1, batches, current_batch, current_count)
    ELSE IF current_count + Len(parse_categories(col[r])) > size
    THEN categories_loop(col, size, r + 1, Append(batches, current_batch),
                         parse_categories(col[r]), Len(parse_categories(col[r])))
    ELSE categories_loop(col, size, r + 1, batches,
                         current_batch \o parse_categories(col[r]),
                         current_count + Len(parse_categories(col[r])))

\* collect_categories without the trailing batch (lines 82-83 left out)
collect_categories_without_last(col, size, policy) ==
    LET end == IF policy = "rows"
               THEN rows_loop(col, size, 1, <<>>, <<>>, 0)
               ELSE categories_loop(col, size, 1, <<>>, <<>>, 0)
    IN  end.batches

collect_categories(col, size, policy) ==
    LET end == IF policy = "rows"
               THEN rows_loop(col, size, 1, <<>>, <<>>, 0)
               ELSE categories_loop(col, size, 1, <<>>, <<>>, 0)
    IN  IF end.current_batch # <<>>
        THEN Append(end.batches, end.current_batch)
        ELSE end.batches

(***************************************************************************)
(* The text-completion service: a call returns a first content segment,    *)
(* returns no content segment, or fails.                                   *)
(***************************************************************************)
TextReply(t) == [kind |-> "text", text |-> t]
NoContentReply == [kind |-> "empty", text |-> <<>>]
ErrorReply == [kind |-> "error", text |-> <<>>]

(***************************************************************************)
(* ThematicAnalyzer.get_analysis_from_claude: the prompt sent, and either  *)
(* the text returned or the exception raised (the service's own failure,   *)
(* or the IndexError of response.content[0] on an empty content list).     *)
(***************************************************************************)
\* get_analysis_from_claude ignoring is_aggregation
get_analysis_always_analysis_prompt(cats, is_aggregation, reply) ==
    [ prompt |-> [ template |-> "analysis_prompt",
                   categories |-> join(<<";", " ">>, cats) ],
      raised |-> reply.kind # "text",
      text   |-> reply.text ]

get_analysis_from_claude(cats, is_aggregation, reply) ==
    [ prompt |-> [ template |-> IF is_aggregation THEN "aggregation_prompt"
                                ELSE "analysis_prompt",
                   categories |-> join(<<";", " ">>, cats) ],
      raised |-> reply.kind # "text",
      text   |-> reply.text ]

(***************************************************************************)
(* ThematicAnalyzer.save_intermediate_results: the file written            *)
(***************************************************************************)
save_intermediate_results(n, cats) ==
    [ iteration |-> n,
      batches   |-> [k \in 1..Len(cats) |-> join(<<";", " ">>, cats[k])] ]

(***************************************************************************)
(* ThematicAnalyzer.iterative_aggregation                                  *)
(***************************************************************************)
AggEntries == { NaN, <<"a">>, <<"b", ";", "c">> }

AggTexts == { <<"x">>, <<"x", ";", " ", "y">>, <<"y", ";">> }

AggReplies == { TextReply(t) : t \in AggTexts } \cup {NoContentReply, ErrorReply}

Init ==
    /\ column \in UNION { [1..n -> AggEntries] : n \in 0..MaxAggRows }
    /\ max_batch_size \in {1, 2}
    /\ batch_by \in {"rows", "categories"}
    /\ pc = "start"
    /\ categories = <<>>
    /\ new_categories = <<>>
    /\ i = 0
    /\ iteration = 0
    /\ final_analysis = <<>>
    /\ calls = <<>>
    /\ replies = <<>>
    /\ saved = <<>>
    /\ final_file = NoFile
    /\ CleanIdle
    /\ RowIdle

\* lines 170-171
Collect ==
    /\ pc = "start"
    /\ categories' = collect_categories(column, max_batch_size, batch_by)
    /\ iteration' = 1
    /\ pc' = "while"
    /\ UNCHANGED <<new_categories, i, final_analysis, calls, replies, saved, final_file>>
    /\ UNCHANGED <<cleanVars, configVars, rowVars>>

\* the loop going on with one batch (len(categories) >= 1)
LoopCond_AtLeastOne(cats) == Len(cats) >= 1

\* the loop stopping one round early (len(categories) > 2)
LoopCond_MoreThanTwo(cats) == Len(cats) > 2

\* line 173: while len(categories) > 1
LoopCond(cats) == Len(cats) > 1

\* the pair test as i + 2 < len(categories)
HasPair_Strict(k, cats) == k + 2 < Len(cats)

\* line 178: if i + 1 < len(categories)
HasPair(k, cats) == k + 1 < Len(cats)

\* lines 173-177: a round begins
BeginRound ==
    /\ pc = "while"
    /\ LoopCond(categories)
    /\ new_categories' = <<>>
    /\ i' = 0
    /\ pc' = "for"
    /\ UNCHANGED <<categories, iteration, final_analysis, calls, replies, saved, final_file>>
    /\ UNCHANGED <<cleanVars, configVars, rowVars>>

\* Merge trying the same pair again after a failed call
Merge_RetriesOnFailure ==
    /\ pc = "for"
    /\ i < Len(categories)
    /\ HasPair(i, categories)
    /\ Len(calls) < 2 * MaxAggRows
    /\ \E reply \in AggReplies :
         LET merged_batch == categories[i + 1] \o categories[i + 2]
             analysis == get_analysis_from_claude(merged_batch, FALSE, reply)
         IN  /\ calls' = Append(calls, analysis.prompt)
             /\ replies' = Append(replies, reply)
             /\ IF analysis.raised
                THEN UNCHANGED <<pc, new_categories, i>>
                ELSE /\ new_categories' =
                            Append(new_categories, split(analysis.text, <<";">>))
                     /\ i' = i + 2
                     /\ pc' = "for"
    /\ UNCHANGED <<categories, iteration, final_analysis, saved, final_file>>
    /\ UNCHANGED <<cleanVars, configVars, rowVars>>

\* lines 178-181: one pair is merged by one service call
Merge ==
    /\ pc = "for"
    /\ i < Len(categories)
    /\ HasPair(i, categories)
    /\ \E reply \in AggReplies :
         LET merged_batch == categories[i + 1] \o categories[i + 2]
             analysis == get_analysis_from_claude(merged_batch, FALSE, reply)
         IN  /\ calls' = Append(calls, analysis.prompt)
             /\ replies' = Append(replies, reply)
             /\ IF analysis.raised
                THEN /\ pc' = "raised"
                     /\ UNCHANGED <<new_categories, i>>
                ELSE /\ new_categories' =
                            Append(new_categories, split(analysis.text, <<";">>))
                     /\ i' = i + 2
                     /\ pc' = "for"
    /\ UNCHANGED <<categories, iteration, final_analysis, saved, final_file>>
    /\ UNCHANGED <<cleanVars, configVars, rowVars>>

\* lines 182-183: the unpaired last batch
PassThrough ==
    /\ pc = "for"
    /\ i < Len(categories)
    /\ ~HasPair(i, categories)
    /\ new_categories' = Append(new_categories, categories[i + 1])
    /\ i' = i + 2
    /\ UNCHANGED <<pc, categories, iteration, final_analysis, calls, replies, saved,
                   final_file>>
    /\ UNCHANGED <<cleanVars, configVars, rowVars>>

\* EndRound saving the batch list the round started from
EndRound_SavesOldBatches ==
    /\ pc = "for"
    /\ i >= Len(categories)
    /\ categories' = new_categories
    /\ saved' = Append(saved, save_intermediate_results(iteration, categories))
    /\ iteration' = iteration + 1
    /\ pc' = "while"
    /\ UNCHANGED <<new_categories, i, final_analysis, calls, replies, final_file>>
    /\ UNCHANGED <<cleanVars, configVars, rowVars>>

\* lines 185-189: the round ends
EndRound ==
    /\ pc = "for"
    /\ i >= Len(categories)
    /\ categories' = new_categories
    /\ saved' = Append(saved, save_intermediate_results(iteration, new_categories))
    /\ iteration' = iteration + 1
    /\ pc' = "while"
    /\ UNCHANGED <<new_categories, i, final_analysis, calls, replies, final_file>>
    /\ UNCHANGED <<cleanVars, configVars, rowVars>>

\* lines 191-194: the terminal call on categories[0]
FinalAggregation ==
    /\ pc = "while"
    /\ ~LoopCond(categories)
    /\ IF categories = <<>>
       THEN \* categories[0] raises IndexError before any call is made
            /\ pc' = "raised"
            /\ UNCHANGED <<calls, replies, final_analysis>>
       ELSE \E reply \in AggReplies :
              LET analysis == get_analysis_from_claude(categories[1], TRUE, reply)
              IN  /\ calls' = Append(calls, analysis.prompt)
                  /\ replies' = Append(replies, reply)
                  /\ IF analysis.raised
                     THEN /\ pc' = "raised"
                          /\ UNCHANGED final_analysis
                     ELSE /\ final_analysis' = analysis.text
                          /\ pc' = "write"
    /\ UNCHANGED <<categories, new_categories, i, iteration, saved, final_file>>
    /\ UNCHANGED <<cleanVars, configVars, rowVars>>

\* lines 196-202: the final file
SaveFinal ==
    /\ pc = "write"
    /\ final_file' = <<"Final Themes:\n">> \o final_analysis
    /\ pc' = "done"
    /\ UNCHANGED <<categories, new_categories, i, iteration, final_analysis, calls,
                   replies, saved>>
    /\ UNCHANGED <<cleanVars, configVars, rowVars>>

\* the process is terminated in the middle of a run
Terminate ==
    /\ pc \in {"while", "for", "write"}
    /\ pc' = "killed"
    /\ UNCHANGED <<categories, new_categories, i, iteration, final_analysis,
                   calls, replies, saved, final_file>>
    /\ UNCHANGED <<cleanVars, configVars, rowVars>>

Next ==
    \/ Collect
    \/ BeginRound
    \/ Merge
    \/ PassThrough
    \/ EndRound
    \/ FinalAggregation
    \/ SaveFinal
    \/ Terminate

Spec == Init /\ [][Next]_vars

\* the run goes on as long as it has a step to take: every call returns or fails
SpecLive == Init /\ [][Next]_vars /\ WF_vars(Next)

(***************************************************************************)
(* collect_categories alone, over a wider range of columns                 *)
(***************************************************************************)
CollectEntries ==
    { NaN, <<"a">>, <<"b", ";", "c">>, <<"d", ";", " ", "e", ";", "f">>,
      <<";">>, <<" ", "g", ";">> }

InitCollect ==
    /\ column \in UNION { [1..n -> CollectEntries] : n \in 0..MaxRows }
    /\ max_batch_size \in 1..MaxBatchSize
    /\ batch_by \in {"rows", "categories"}
    /\ pc = "start"
    /\ categories = <<>>
    /\ new_categories = <<>>
    /\ i = 0
    /\ iteration = 0
    /\ final_analysis = <<>>
    /\ calls = <<>>
    /\ replies = <<>>
    /\ saved = <<>>
    /\ final_file = NoFile
    /\ CleanIdle
    /\ RowIdle

NextCollect == Collect

SpecCollect == InitCollect /\ [][NextCollect]_vars

(***************************************************************************)
(* clean_text applied to a text, and again to its own result               *)
(***************************************************************************)
CleanChunks ==
    { <<"a">>, <<" ">>, <<"\"">>, <<"'">>, <<"\\">>, <<"n">>, <<")">>,
      <<"[">> \o ContentBlockOpen, TypeText }

\* the texts given to clean_text: up to MaxChunks pieces, or a value that is no str
InitClean ==
    /\ \/ \E cs \in UNION { [1..n -> CleanChunks] : n \in 0..MaxChunks } :
            text = Flatten(cs)
       \/ text = NaN
    /\ cleaned = <<>>
    /\ clean_pc = "raw"
    /\ AggIdle
    /\ ConfigIdle
    /\ RowIdle

Clean ==
    /\ clean_pc = "raw"
    /\ cleaned' = clean_text(text)
    /\ clean_pc' = "cleaned"
    /\ UNCHANGED text
    /\ UNCHANGED <<configVars, aggVars, rowVars>>

CleanAgain ==
    /\ clean_pc = "cleaned"
    /\ text' = cleaned
    /\ cleaned' = clean_text(cleaned)
    /\ clean_pc' = "recleaned"
    /\ UNCHANGED <<configVars, aggVars, rowVars>>

NextClean == Clean \/ CleanAgain

SpecClean == InitClean /\ [][NextClean]_vars

\* C8: clean_text is idempotent: cleaning a cleaned text changes nothing.
C8_CleanTextIdempotent ==
    clean_pc = "recleaned" => cleaned = text

(***************************************************************************)
(* Properties of iterative_aggregation (specification Spec)                *)
(***************************************************************************)
\* the batches the run starts from, and their number N
StartBatches == collect_categories(column, max_batch_size, batch_by)

RECURSIVE CeilLog2(_)
CeilLog2(n) == IF n <= 1 THEN 0 ELSE 1 + CeilLog2((n + 1) \div 2)

RECURSIVE IsPowerOfTwo(_)
IsPowerOfTwo(n) ==
    IF n <= 1 THEN n = 1 ELSE n % 2 = 0 /\ IsPowerOfTwo(n \div 2)

RECURSIVE Pow2(_)
Pow2(n) == IF n <= 0 THEN 1 ELSE 2 * Pow2(n - 1)

IsAggregationCall(c) == c.template = "aggregation_prompt"

\* C1: only the last service call of a run uses the aggregation template, it
\* is made after the merge loop on the single batch that remains, every other
\* call uses the analysis template, and a run whose calls all succeed makes it.
C1_OneTerminalAggregationCall ==
    /\ \A k \in 1..Len(calls) :
         IF IsAggregationCall(calls[k])
         THEN k = Len(calls) /\ pc \in {"write", "done", "raised", "killed"}
         ELSE calls[k].template = "analysis_prompt"
    /\ pc \in {"write", "done"} =>
         /\ Len(calls) >= 1
         /\ IsAggregationCall(calls[Len(calls)])
         /\ Len(categories) = 1
         /\ calls[Len(calls)].categories = join(<<";", " ">>, categories[1])

C1_Witness ==
    /\ pc = "done"
    /\ Len(calls) >= 3
    /\ IsAggregationCall(calls[Len(calls)])

\* C2: from N = 2^k starting batches, the batch count after r rounds is
\* N / 2^r, so the loop ends after exactly k rounds with one batch left; for
\* N = 1 no round is run and the only call is the terminal aggregation call.
C2_PowerOfTwoRounds ==
    IsPowerOfTwo(Len(StartBatches)) =>
        /\ pc \in {"while", "write", "done"} =>
             /\ Len(categories) * Pow2(iteration - 1) = Len(StartBatches)
             /\ Len(saved) = iteration - 1
        /\ pc \in {"write", "done"} =>
             /\ Len(categories) = 1
             /\ iteration - 1 = CeilLog2(Len(StartBatches))
        /\ Len(StartBatches) = 1 =>
             /\ pc # "for"
             /\ saved = <<>>
             /\ \A k \in 1..Len(calls) : IsAggregationCall(calls[k])

C2_Witness ==
    /\ pc = "done"
    /\ Len(StartBatches) = 4
    /\ iteration = 3

\* C3: a column that yields zero batches ends in a "no data" outcome: no
\* service call is made and no exception is raised.
C3_ZeroBatchesNoCrash ==
    (pc # "start" /\ StartBatches = <<>>) => (calls = <<>> /\ pc # "raised")

\* C4: iteration files are numbered 1, 2, ... and are all written before any
\* call of the next round or the terminal call; each is written once the
\* merges of its round are done and holds the batch list the round produced;
\* files written are kept when a call fails or the run is terminated; a
\* successful run writes one file per round and one final file.
C4_State ==
    /\ \A k \in 1..Len(saved) : saved[k].iteration = k
    /\ pc # "start" => Len(saved) = iteration - 1
    /\ pc = "done" =>
         /\ Len(saved) = CeilLog2(Len(StartBatches))
         /\ final_file # NoFile
    /\ pc # "done" => final_file = NoFile

C4_Step ==
    /\ calls' # calls => Len(saved) = iteration - 1
    /\ Len(saved') >= Len(saved) /\ SubSeq(saved', 1, Len(saved)) = saved
    /\ saved' # saved =>
         /\ pc = "for"
         /\ i >= Len(categories)
         /\ Len(new_categories) = (Len(categories) + 1) \div 2
         /\ calls' = calls
         /\ saved' = Append(saved,
               [ iteration |-> iteration,
                 batches |-> [k \in 1..Len(new_categories) |->
                                 join(<<";", " ">>, new_categories[k])] ])

\* C4: the state part holds in every state and the step part of every step.
C4_IterationsPersisted == [](C4_State) /\ [][C4_Step]_vars

C4_Witness ==
    /\ pc = "raised"
    /\ iteration = 2
    /\ Len(saved) = 1
    /\ Len(categories) > 1
    /\ Len(calls) >= 3

IsTrimmedCategory(c) == c # <<>> /\ strip(c) = c

\* C5: every category of every batch a round holds or produces is a
\* non-empty string without leading or trailing whitespace.
C5_MergedCategoriesTrimmed ==
    /\ \A b \in 1..Len(categories) : \A k \in 1..Len(categories[b]) :
         IsTrimmedCategory(categories[b][k])
    /\ \A b \in 1..Len(new_categories) : \A k \in 1..Len(new_categories[b]) :
         IsTrimmedCategory(new_categories[b][k])

(***************************************************************************)
(* Properties of collect_categories (specification SpecCollect)            *)
(***************************************************************************)
\* C9: under the 'categories' policy a batch holds more than max_batch_size
\* categories only if it is the categories of one row that alone exceeds it.
C9_CategoriesPolicyBound ==
    (pc = "while" /\ batch_by = "categories") =>
        \A b \in 1..Len(categories) :
            \/ Len(categories[b]) <= max_batch_size
            \/ \E r \in 1..Len(column) :
                 /\ notna(column[r])
                 /\ parse_categories(column[r]) = categories[b]
                 /\ Len(parse_categories(column[r])) > max_batch_size

C9_Witness ==
    /\ pc = "while"
    /\ batch_by = "categories"
    /\ Len(categories) >= 3
    /\ \E b \in 1..Len(categories) : Len(categories[b]) > max_batch_size
    /\ \E b \in 1..Len(categories) :
         /\ Len(categories[b]) = max_batch_size
         /\ \A r \in 1..Len(column) :
              notna(column[r]) => parse_categories(column[r]) # categories[b]

PresentRows == SelectSeq(column, notna)

RowGroups == (Len(PresentRows) + max_batch_size - 1) \div max_batch_size

GroupCategories(g) ==
    LET lo == (g - 1) * max_batch_size + 1
        hi == IF g * max_batch_size <= Len(PresentRows)
              THEN g * max_batch_size ELSE Len(PresentRows)
    IN  Flatten([k \in 1..(hi - lo + 1) |-> parse_categories(PresentRows[lo + k - 1])])

\* C10: under the 'rows' policy the rows that are not absent are cut into
\* consecutive groups of max_batch_size rows (the last group has 1 to
\* max_batch_size rows); batch k is the categories of the rows of group k, in
\* order, whatever their number (a last group without categories gives no batch).
C10_RowsPolicyAlignment ==
    (pc = "while" /\ batch_by = "rows") =>
        /\ Len(categories) \in {RowGroups, RowGroups - 1}
        /\ Len(categories) = RowGroups - 1 =>
             (RowGroups >= 1 /\ GroupCategories(RowGroups) = <<>>)
        /\ Len(categories) = RowGroups =>
             (RowGroups = 0 \/ GroupCategories(RowGroups) # <<>>)
        /\ \A g \in 1..Len(categories) : categories[g] = GroupCategories(g)

C10_Witness ==
    /\ pc = "while"
    /\ batch_by = "rows"
    /\ max_batch_size = 2
    /\ Len(column) > Len(PresentRows)
    /\ Len(PresentRows) = 3
    /\ Len(categories) = 2
    /\ Len(categories[1]) > max_batch_size

(***************************************************************************)
(* FeedbackAnalyzer.extract_elements                                       *)
(***************************************************************************)
\* the part after the last colon (split(':')[-1], without the maxsplit)
after_last_colon(part) ==
    LET hits == { k \in 1..Len(part) : part[k] = ":" }
    IN  IF hits = {} THEN part
        ELSE LET k == CHOOSE h \in hits : \A g \in hits : h >= g
             IN  SubSeq(part, k + 1, Len(part))

\* part.split(':', 1)[-1]
after_first_colon(part) ==
    LET hits == { k \in 1..Len(part) : part[k] = ":" }
    IN  IF hits = {} THEN part
        ELSE LET k == CHOOSE h \in hits : \A g \in hits : h <= g
             IN  SubSeq(part, k + 1, Len(part))

\* extract_elements taking the secondary part from the last part (parts[-1])
extract_elements_secondary_last(analysis) ==
    LET parts == split(analysis, <<"-", "-", "-">>)
    IN  [ primary   |-> strip(after_first_colon(strip(parts[1]))),
          secondary |-> strip(after_first_colon(strip(parts[Len(parts)]))) ]

extract_elements(analysis) ==
    LET parts == split(analysis, <<"-", "-", "-">>)
        primary == IF Len(parts) > 0 THEN strip(parts[1]) ELSE <<>>
        secondary == IF Len(parts) > 1 THEN strip(parts[2]) ELSE <<>>
    IN  [ primary   |-> strip(after_first_colon(primary)),
          secondary |-> strip(after_first_colon(secondary)) ]

(***************************************************************************)
(* FeedbackAnalyzer.process_row and analyze_feedback                       *)
(***************************************************************************)
max_retries == 3

NoInputData == <<"N", "o", " ", "i", "n", "p", "u", "t", " ", "d", "a", "t", "a">>
ProcessingError == <<"P", "r", "o", "c", "e", "s", "s", "i", "n", "g", " ", "e", "r", "r", "o", "r">>
NoContentInResponse == <<"N", "o", " ", "c", "o", "n", "t", "e", "n", "t", " ", "i", "n", " ", "r", "e", "s", "p", "o", "n", "s", "e">>

\* a function that ends without a return statement returns None
None == <<"None">>

\* config['column_mapping']: column -> topic, in order; q9 is in no input file
column_mapping ==
    << [col |-> "q1", topic |-> "T1"],
       [col |-> "q2", topic |-> "T2"],
       [col |-> "q9", topic |-> "T9"] >>

\* rows of the input file: the columns q1, q2 (mapped) and id (not mapped)
Records ==
    { [q1 |-> NaN,     q2 |-> NaN,     id |-> NaN],
      [q1 |-> NaN,     q2 |-> NaN,     id |-> <<"7">>],
      [q1 |-> <<"u">>, q2 |-> NaN,     id |-> <<"7">>],
      [q1 |-> NaN,     q2 |-> <<"v">>, id |-> NaN],
      [q1 |-> <<"u">>, q2 |-> <<"v">>, id |-> <<"7">>] }

RowTexts == { <<"P", ":", " ", "a", "-", "-", "-", "S", ":", " ", "b">>, <<"\"", "c", "\"">> }

RowReplies == { TextReply(t) : t \in RowTexts } \cup {NoContentReply, ErrorReply}

\* lines 97-100: the mapped fields that go into the prompt
prompt_lines(row) ==
    SelectSeq(column_mapping,
              LAMBDA m : m.col \in DOMAIN row /\ notna(row[m.col]))

has_data(row) == prompt_lines(row) # <<>>

\* df.dropna(how='all')
dropna_all(table) ==
    SelectSeq(table, LAMBDA row : \E c \in DOMAIN row : notna(row[c]))

\* line 127 with a retry after the last attempt too (attempt < max_retries)
can_retry_always(a) == a < max_retries

\* line 127: if attempt < max_retries - 1
can_retry(a) == a < max_retries - 1

CallEvent(reply) ==
    [row |-> row_idx, kind |-> "call", attempt |-> attempt,
     outcome |-> reply.kind, seconds |-> 0]

\* the wait as 2 * attempt in place of 2 ** attempt
SleepEvent_TwiceAttempt ==
    [row |-> row_idx, kind |-> "sleep", attempt |-> attempt,
     outcome |-> "slept", seconds |-> 2 * attempt]

SleepEvent ==
    [row |-> row_idx, kind |-> "sleep", attempt |-> attempt,
     outcome |-> "slept", seconds |-> 2 ^ attempt]

\* process_row returns result: progress_apply stores it and goes to the next row
Return(result) ==
    /\ analyses' = Append(analyses, result)
    /\ row_idx' = row_idx + 1
    /\ row_pc' = "apply"

InitFeedback ==
    /\ rows \in UNION { [1..n -> Records] : n \in 0..MaxFeedbackRows }
    /\ df = <<>>
    /\ row_idx = 0
    /\ attempt = 0
    /\ row_pc = "read"
    /\ row_log = <<>>
    /\ analyses = <<>>
    /\ extracted = <<>>
    /\ CleanIdle
    /\ AggIdle
    /\ ConfigIdle

\* analyze_feedback, lines 162-170
ReadRows ==
    /\ row_pc = "read"
    /\ df' = dropna_all(rows)
    /\ row_idx' = 1
    /\ row_pc' = "apply"
    /\ UNCHANGED <<rows, attempt, row_log, analyses, extracted>>
    /\ UNCHANGED <<cleanVars, configVars, aggVars>>

\* process_row, lines 93-111: the prompt is built, a row without data returns
BeginRow ==
    /\ row_pc = "apply"
    /\ row_idx <= Len(df)
    /\ IF ~has_data(df[row_idx])
       THEN /\ Return(NoInputData)
            /\ UNCHANGED attempt
       ELSE /\ attempt' = 0
            /\ row_pc' = "try"
            /\ UNCHANGED <<analyses, row_idx>>
    /\ UNCHANGED <<rows, df, row_log, extracted>>
    /\ UNCHANGED <<cleanVars, configVars, aggVars>>

\* process_row, lines 111-131: one pass of the retry loop
Attempt ==
    /\ row_pc = "try"
    /\ \E reply \in RowReplies :
         IF reply.kind = "text"
         THEN /\ row_log' = Append(row_log, CallEvent(reply))
              /\ Return(clean_text(reply.text))
              /\ UNCHANGED attempt
         ELSE IF reply.kind = "empty"
         THEN /\ row_log' = Append(row_log, CallEvent(reply))
              /\ Return(NoContentInResponse)
              /\ UNCHANGED attempt
         ELSE IF can_retry(attempt)
         THEN /\ row_log' = row_log \o <<CallEvent(reply), SleepEvent>>
              /\ attempt' = attempt + 1
              /\ IF attempt + 1 < max_retries
                 THEN UNCHANGED <<analyses, row_idx, row_pc>>
                 ELSE Return(None)
         ELSE /\ row_log' = Append(row_log, CallEvent(reply))
              /\ Return(ProcessingError)
              /\ UNCHANGED attempt
    /\ UNCHANGED <<rows, df, extracted>>
    /\ UNCHANGED <<cleanVars, configVars, aggVars>>

\* analyze_feedback, lines 176-186
ExtractAll ==
    /\ row_pc = "apply"
    /\ row_idx > Len(df)
    /\ extracted' = [k \in 1..Len(analyses) |-> extract_elements(analyses[k])]
    /\ row_pc' = "done"
    /\ UNCHANGED <<rows, df, row_idx, attempt, row_log, analyses>>
    /\ UNCHANGED <<cleanVars, configVars, aggVars>>

NextFeedback ==
    \/ ReadRows
    \/ BeginRow
    \/ Attempt
    \/ ExtractAll

SpecFeedback == InitFeedback /\ [][NextFeedback]_vars

(***************************************************************************)
(* Properties of process_row and extract_elements (SpecFeedback)           *)
(***************************************************************************)
CallsOfRow(k) ==
    SelectSeq(row_log, LAMBDA e : e.row = k /\ e.kind = "call")

AllFailed(cs) == \A j \in 1..Len(cs) : cs[j].outcome = "error"

\* C6: a row gets at most 3 service calls, none after a call that did not
\* fail; process_row always returns a string, which is "Processing error"
\* exactly when 3 calls were made and all failed; every row is processed.
C6_RetryThenSentinel ==
    /\ row_pc # "raised"
    /\ \A k \in 1..Len(df) :
         LET cs == CallsOfRow(k)
         IN  /\ Len(cs) <= 3
             /\ \A j \in 1..(Len(cs) - 1) : cs[j].outcome = "error"
             /\ k <= Len(analyses) =>
                  /\ analyses[k] # None
                  /\ (analyses[k] = ProcessingError) <=> (Len(cs) = 3 /\ AllFailed(cs))
                  /\ has_data(df[k]) => Len(cs) >= 1
    /\ row_pc = "done" => (Len(analyses) = Len(df) /\ Len(extracted) = Len(df))

C6_Witness ==
    /\ row_pc = "done"
    /\ Len(df) = 2
    /\ analyses[1] = ProcessingError
    /\ Len(CallsOfRow(1)) = 3
    /\ Len(CallsOfRow(2)) = 2
    /\ analyses[2] # ProcessingError

NoMappedData(row) ==
    \A k \in 1..Len(column_mapping) :
        column_mapping[k].col \in DOMAIN row => row[column_mapping[k].col] = NaN

\* C7 as stated: a row without mapped data gets no service call and both
\* parts of its result are "No input data".
C7_NoInputBothParts ==
    \A k \in 1..Len(df) :
        NoMappedData(df[k]) =>
            /\ CallsOfRow(k) = <<>>
            /\ row_pc = "done" =>
                 /\ extracted[k].primary = NoInputData
                 /\ extracted[k].secondary = NoInputData

\* C7 as amended: a row without mapped data gets no service call, its
\* analysis is "No input data", and of its result the primary part is
\* "No input data" and the secondary part is the empty string.
C7_NoInputPrimaryOnly ==
    \A k \in 1..Len(df) :
        NoMappedData(df[k]) =>
            /\ CallsOfRow(k) = <<>>
            /\ k <= Len(analyses) => analyses[k] = NoInputData
            /\ row_pc = "done" =>
                 /\ extracted[k].primary = NoInputData
                 /\ extracted[k].secondary = <<>>

C7_Witness ==
    /\ row_pc = "done"
    /\ \E k \in 1..Len(df) : NoMappedData(df[k]) /\ extracted[k].primary = NoInputData
    /\ \E k \in 1..Len(df) : ~NoMappedData(df[k]) /\ CallsOfRow(k) # <<>>

(***************************************************************************)
(* More properties of iterative_aggregation (specification Spec)           *)
(***************************************************************************)
\* C11: a reply that carries no content segment gives the caller a
\* "no content" value: the call that received it does not end in an exception.
C11_NoContentIsNotAFailure ==
    \A k \in 1..Len(replies) :
        replies[k].kind = "empty" => ~(k = Len(replies) /\ pc = "raised")

(***************************************************************************)
(* extract_elements alone, over a wider range of texts                     *)
(***************************************************************************)
\* "Primary: cat1, cat2\n---\nSecondary: cat3"
ExampleAnalysis ==
    <<"P", "r", "i", "m", "a", "r", "y", ":", " ", "c", "a", "t",
      "1", ",", " ", "c", "a", "t", "2", "\n", "-", "-", "-", "\n",
      "S", "e", "c", "o", "n", "d", "a", "r", "y", ":", " ", "c",
      "a", "t", "3">>

ExtractChunks ==
    { <<"a">>, <<"b">>, <<":">>, <<" ">>, <<"\n">>, <<"-">>, <<"-", "-", "-">> }

InitExtract ==
    /\ \/ \E cs \in UNION { [1..n -> ExtractChunks] : n \in 0..MaxExtractChunks } :
            analyses = <<Flatten(cs)>>
       \/ analyses = <<ExampleAnalysis>>
    /\ row_pc = "analysis"
    /\ rows = <<>>
    /\ df = <<>>
    /\ row_idx = 0
    /\ attempt = 0
    /\ row_log = <<>>
    /\ extracted = <<>>
    /\ CleanIdle
    /\ AggIdle
    /\ ConfigIdle

\* line 178: extract_elements applied to one analysis
Extract ==
    /\ row_pc = "analysis"
    /\ extracted' = <<extract_elements(analyses[1])>>
    /\ row_pc' = "extracted"
    /\ UNCHANGED <<rows, df, row_idx, attempt, row_log, analyses>>
    /\ UNCHANGED <<cleanVars, configVars, aggVars>>

NextExtract == Extract

SpecExtract == InitExtract /\ [][NextExtract]_vars

(***************************************************************************)
(* Properties of extract_elements (specification SpecExtract)              *)
(***************************************************************************)
\* position of the first occurrence of lit in s, 0 if there is none
FirstAt(s, lit) ==
    LET hits == { k \in 1..Len(s) : StartsWithAt(s, k, lit) }
    IN  IF hits = {} THEN 0 ELSE CHOOSE h \in hits : \A g \in hits : h <= g

\* s without its leading and trailing whitespace
Trimmed(s) ==
    LET solid == { k \in 1..Len(s) : ~IsSpace(s[k]) }
    IN  IF solid = {} THEN <<>>
        ELSE SubSeq(s, CHOOSE a \in solid : \A b \in solid : a <= b,
                       CHOOSE a \in solid : \A b \in solid : a >= b)

\* s without everything up to and including its first colon, if it has one
WithoutLabel(s) ==
    IF FirstAt(s, <<":">>) = 0 THEN s
    ELSE SubSeq(s, FirstAt(s, <<":">>) + 1, Len(s))

Separator == <<"-", "-", "-">>

\* the text before the first separator
PartZero(s) ==
    IF FirstAt(s, Separator) = 0 THEN s
    ELSE SubSeq(s, 1, FirstAt(s, Separator) - 1)

\* the text between the first separator and the next one, empty without separator
PartOne(s) ==
    IF FirstAt(s, Separator) = 0 THEN <<>>
    ELSE LET rest == SubSeq(s, FirstAt(s, Separator) + Len(Separator), Len(s))
         IN  IF FirstAt(rest, Separator) = 0 THEN rest
             ELSE SubSeq(rest, 1, FirstAt(rest, Separator) - 1)

IsText(s) == s # NaN /\ s # None /\ \A k \in 1..Len(s) : Len(s[k]) = 1

\* C12: primary is part 0 and secondary part 1 of the text split on '---'
\* (empty without separator), each without its label up to the first colon
\* and trimmed, later colons kept; both are strings; the example of the
\* specification gives "cat1, cat2" and "cat3".
C12_ExtractElements ==
    row_pc = "extracted" =>
        /\ Len(extracted) = 1
        /\ IsText(extracted[1].primary)
        /\ IsText(extracted[1].secondary)
        /\ extracted[1].primary = Trimmed(WithoutLabel(PartZero(analyses[1])))
        /\ extracted[1].secondary = Trimmed(WithoutLabel(PartOne(analyses[1])))
        /\ analyses[1] = ExampleAnalysis =>
             /\ extracted[1].primary =
                  <<"c", "a", "t", "1", ",", " ", "c", "a", "t", "2">>
             /\ extracted[1].secondary = <<"c", "a", "t", "3">>

C12_Witness ==
    /\ row_pc = "extracted"
    /\ FirstAt(analyses[1], Separator) > 0
    /\ FirstAt(extracted[1].primary, <<":">>) > 0
    /\ extracted[1].secondary # <<>>
    /\ extracted[1].secondary # PartOne(analyses[1])

(***************************************************************************)
(* More properties of process_row (specification SpecFeedback)             *)
(***************************************************************************)
EventsOfRow(k) == SelectSeq(row_log, LAMBDA e : e.row = k)

RECURSIVE TotalWait(_)
TotalWait(events) ==
    IF events = <<>> THEN 0
    ELSE (IF Head(events).kind = "sleep" THEN Head(events).seconds ELSE 0)
            + TotalWait(Tail(events))

\* C13: the events of a row are call (attempt 0), wait 1, call (attempt 1),
\* wait 2, call (attempt 2): calls and waits alternate, a wait follows a
\* failed call and is followed by the next call, there is no wait after a
\* call that did not fail nor after the third failed call, and the waits of
\* a row add up to at most 3.
C13_BackoffSequence ==
    \A k \in 1..Len(df) :
        LET events == EventsOfRow(k)
        IN  /\ \A j \in 1..Len(events) :
                 IF j % 2 = 1
                 THEN /\ events[j].kind = "call"
                      /\ events[j].attempt = (j - 1) \div 2
                 ELSE /\ events[j].kind = "sleep"
                      /\ events[j - 1].outcome = "error"
                      /\ j <= 4
                      /\ events[j].seconds = (IF j = 2 THEN 1 ELSE 2)
            /\ TotalWait(events) <= 3
            /\ k <= Len(analyses) =>
                 /\ events # <<>> => events[Len(events)].kind = "call"
                 /\ analyses[k] = ProcessingError =>
                      (Len(events) = 5 /\ TotalWait(events) = 3)

C13_Witness ==
    /\ row_pc = "done"
    /\ \E k \in 1..Len(df) :
         /\ Len(EventsOfRow(k)) = 5
         /\ analyses[k] = ProcessingError
    /\ \E k \in 1..Len(df) :
         /\ Len(EventsOfRow(k)) = 3
         /\ TotalWait(EventsOfRow(k)) = 1

(***************************************************************************)
(* Properties of one round of iterative_aggregation (specification Spec)   *)
(***************************************************************************)
\* the merges made so far in the round that is running
MergesDone ==
    IF i \div 2 <= Len(categories) \div 2 THEN i \div 2 ELSE Len(categories) \div 2

C14_Round ==
    pc = "for" =>
        /\ i % 2 = 0
        /\ Len(new_categories) = i \div 2
        /\ Len(calls) = (Len(StartBatches) - Len(categories)) + MergesDone
        /\ Len(replies) = Len(calls)
        /\ \A k \in 0..(MergesDone - 1) :
             LET c == Len(calls) - MergesDone + k + 1
             IN  /\ calls[c].template = "analysis_prompt"
                 /\ calls[c].categories =
                      join(<<";", " ">>, categories[2 * k + 1] \o categories[2 * k + 2])
                 /\ replies[c].kind = "text"
                 /\ new_categories[k + 1] = split(replies[c].text, <<";">>)
        /\ i >= Len(categories) =>
             /\ Len(new_categories) = (Len(categories) + 1) \div 2
             /\ Len(categories) % 2 = 1 =>
                  new_categories[Len(new_categories)] = categories[Len(categories)]

C14_Step ==
    (pc = "for" /\ pc' = "while") => categories' = new_categories

\* C14: a round over n > 1 batches gives ceil(n/2) batches: batch k is the
\* reply, split on ';', of the one call made on batch 2k followed by batch
\* 2k+1, and for an odd n the last batch is batch n-1 itself, with no call.
C14_PairwiseRound == [](C14_Round) /\ [][C14_Step]_vars

C14_Witness ==
    /\ pc = "for"
    /\ i >= Len(categories)
    /\ Len(categories) = 3
    /\ Len(new_categories) = 2
    /\ new_categories[2] = categories[3]
    /\ new_categories[1] # categories[1] \o categories[2]

(***************************************************************************)
(* More properties of collect_categories (specification SpecCollect)       *)
(***************************************************************************)
\* the categories of the first r present rows, in order
CategoriesOfRows(r) ==
    Flatten([k \in 1..r |-> parse_categories(PresentRows[k])])

\* C15: under both policies the batches, one after the other, are the parsed
\* categories of the present rows in row order, nothing lost, repeated or
\* moved, and every batch ends where a row ends.
C15_BatchesPartitionCategories ==
    pc = "while" =>
        /\ Flatten(categories) = CategoriesOfRows(Len(PresentRows))
        /\ \A b \in 1..Len(categories) :
             \E r \in 0..Len(PresentRows) :
                 Flatten(SubSeq(categories, 1, b)) = CategoriesOfRows(r)

C15_Witness ==
    /\ pc = "while"
    /\ batch_by = "categories"
    /\ Len(PresentRows) = 4
    /\ Len(categories) = 2
    /\ Len(categories[1]) = 3
    /\ Len(categories[2]) >= 2

\* C16: no batch returned by collect_categories is empty.
C16_NoEmptyBatch ==
    pc = "while" => \A b \in 1..Len(categories) : categories[b] # <<>>

(***************************************************************************)
(* Failure and termination of iterative_aggregation                        *)
(***************************************************************************)
\* C17: every call gets one reply and is not made again: a call that fails
\* is the last call of the run, the run has stopped on it, and a run
\* stopped by a failure has written no final file.
C17_SingleAttemptSurfaced ==
    /\ Len(replies) = Len(calls)
    /\ \A k \in 1..Len(replies) :
         replies[k].kind = "error" => (k = Len(replies) /\ pc = "raised")
    /\ pc = "raised" => final_file = NoFile

C17_Witness ==
    /\ pc = "raised"
    /\ Len(calls) >= 2
    /\ replies[Len(replies)].kind = "error"
    /\ saved # <<>>
    /\ final_file = NoFile

C18_State ==
    /\ pc \in {"write", "done"} =>
         /\ Len(StartBatches) >= 1
         /\ Len(calls) = Len(StartBatches)
         /\ \A k \in 1..Len(calls) :
              calls[k].template = (IF k < Len(calls) THEN "analysis_prompt"
                                   ELSE "aggregation_prompt")
         /\ \A k \in 1..Len(replies) : replies[k].kind = "text"
    /\ (pc = "raised" /\ Len(StartBatches) >= 1) =>
         (replies # <<>> /\ replies[Len(replies)].kind # "text")

C18_Step ==
    (pc = "for" /\ pc' = "while") =>
        /\ Len(categories') = (Len(categories) + 1) \div 2
        /\ Len(categories') < Len(categories)

\* C18: a run from N >= 1 batches ends; unless a call fails or the process
\* is terminated it ends after N - 1 merge calls and then 1 aggregation
\* call, and each round takes the batch count from n to ceil(n/2) < n.
C18_Terminates ==
    /\ [](C18_State)
    /\ [][C18_Step]_vars
    /\ <>(pc \in {"done", "raised", "killed"})

C18_Witness ==
    /\ pc = "done"
    /\ Len(StartBatches) = 3
    /\ Len(calls) = 3
    /\ iteration = 3

====
